---- MODULE Spec2Model ----
(***************************************************************************)
(* Model of the producer pipeline of geo-dataset-builder:                  *)
(*   src/src/queue_manager.py  QueueManager (SQLite table output_queue)    *)
(*   src/src/main.py           main, _process_single_annotation            *)
(*   src/src/dataset_modality/tms.py  TMSModality.download_tile            *)
(* The table is a set of rows; every SQL statement is one atomic step      *)
(* (SQLite serialises statements); cleanup_missing_files, which reads,     *)
(* tests the file system and deletes inside one connection, is three       *)
(* kinds of step.  SpecLock splits every write call into entering it,      *)
(* taking the write lock, and committing.                                  *)
(***************************************************************************)
EXTENDS Integers, Sequences, FiniteSets, TLC

\* ---------------------------------------------------------------- bounds
NumKeys == 2          \* distinct resolved file paths the callers of the store use
NumItems == 3         \* items of the source of a run of main
MaxId == 3            \* rows ever inserted (AUTOINCREMENT ids handed out)
MaxTime == 1          \* distinct readings of time.time()
MaxCeiling == 2       \* largest max_unprocessed tried
MaxWorkers == 2       \* largest num_workers tried
MaxLeftover == 1      \* rows in the table when a run of main starts
NumMods == 2          \* modalities configured
NumThreads == 2       \* threads calling one QueueManager at a time
MaxClock == 5         \* readings of the clock by the tile fetcher

Keys == 1..NumKeys
NoKey == 0            \* Python None as a return value of get_next_pending
Ids == 1..MaxId
Status == {"pending", "processing"}
Items == 1..NumItems  \* items of the source, in source order
Mods == 1..NumMods
Paths == Keys \cup (1..(NumMods * NumItems))
Workers == 1..MaxWorkers
NoItem == 0
Threads == 1..NumThreads
NoThread == 0

VARIABLES
    rows,             \* table output_queue: set of [id, key, created_at, status]
    nextId,           \* next AUTOINCREMENT id
    now,              \* time.time()
    files,            \* paths for which Path(p).exists()
    max_unprocessed,  \* QueueManager.max_unprocessed
    lastOp,           \* the last call and what it returned: [op, key, ret]
                      \* (for cleanup_missing_files, ret: it deleted a row)
    markTrue,         \* per key: mark_processing calls on its present row that returned True
    sweepPc,          \* cleanup_missing_files: "idle", "scan"
    sweepTodo,        \* keys fetched by its SELECT and not yet tested
    sweepDel,         \* keys deleted inside its open transaction
    sweepPre,         \* rows at its SELECT, kept while sweepClean
    sweepClean,       \* no write and no file change during the (last) sweep
    num_workers,      \* main(num_workers=...)
    incremental,      \* conf.grid.incremental: lazy source instead of a list
    batch_size,       \* main(batch_size=...)
    mainPc,           \* where main is: "start", "config", "config_error", "modality",
                      \*   "next", "wait", "produce", "add", "collect", "h5",
                      \*   "done", "aborted", "finished"
    pos,              \* index of the next item of the source
    cur,              \* the item of the sequential loop's current turn
    taskQ,            \* executor work queue: submitted items no worker has taken
    futures,          \* futures of the current chunk that have not resolved
    wPc,              \* per worker: "idle", "recount", "wait", "produce", "add"
    wItem,            \* per worker: the item it runs _process_single_annotation on
    result,           \* per item: "none", "queued", "duplicate", "skipped", "failed"
    saved,            \* len(saved_paths)
    waited,           \* the sequential loop's current turn went through the wait
    consumer,         \* a consumer process is draining the queue during the run
    dbOpened,         \* QueueManager(...) has run: database file opened, schema written
    confOk,           \* conf.grid has a bbox or the three country filter parameters
    modIdx,           \* idx + 1 of the modality the loop over modalities_list is at
    modLog,           \* per modality: "todo", "create_failed", "unsupported",
                      \*   "aborted", "done"
    fmt,              \* output_format of the modality: "tif", "h5"
    outs,             \* all_modality_outputs
    batchOuts,        \* batch_outputs
    writeAlls,        \* arguments of the calls of writer.write_all, in order
    total_saved,      \* main's total_saved
    mutex,            \* QueueManager._lock: the thread that holds it, or NoThread
    dbWriter,         \* the thread whose connection holds SQLite's write lock, or NoThread
    thPc,             \* per thread calling the store: "idle", "entered", "scan", "txn"
    thOp,             \* per thread: the call it is in, [op, key, todo]
    clock,            \* time.time() as the tile fetcher reads it
    last_request_time,\* TMSModality.last_request_time
    tPc,              \* per worker in download_tile: "idle", "sleep", "stamp"
    tWake,            \* per worker: when its time.sleep ends
    twin              \* what the collaborators answer per item, and the run this one is compared with

storeVars == <<rows, nextId, now, files, max_unprocessed, lastOp,
               markTrue, sweepPc, sweepTodo, sweepDel, sweepPre, sweepClean>>

threadVars == <<mutex, dbWriter, thPc, thOp, clock, last_request_time, tPc, tWake>>

runVars == <<num_workers, incremental, batch_size, mainPc, pos, cur, taskQ,
             futures, wPc, wItem, result, saved, waited, consumer,
             dbOpened, confOk, modIdx, modLog, fmt, outs, batchOuts, writeAlls,
             total_saved>>

pipeVars == <<runVars, threadVars, twin>>

vars == <<storeVars, pipeVars>>

\* ------------------------------------------------------ QueueManager (pure)
Row(id, k, t, s) == [id |-> id, key |-> k, created_at |-> t, status |-> s]

KeysOf(rs) == {r.key : r \in rs}

HasKey(rs, k) == \E r \in rs : r.key = k

RowOf(rs, k) == CHOOSE r \in rs : r.key = k

PendingOf(rs) == {r \in rs : r.status = "pending"}

Min(a, b) == IF a < b THEN a ELSE b

\* INSERT INTO output_queue (file_path, created_at, status) VALUES (?, ?, 'pending')
\* under file_path TEXT NOT NULL UNIQUE: IntegrityError leaves the table as it is.
InsertUpsert(rs, k, id, t) ==
    IF HasKey(rs, k)
    THEN {IF r.key = k THEN Row(r.id, k, r.created_at, "pending") ELSE r : r \in rs}
    ELSE rs \cup {Row(id, k, t, "pending")}

InsertOrReplace(rs, k, id, t) ==
    {r \in rs : r.key # k} \cup {Row(id, k, t, "pending")}

InsertNoUnique(rs, k, id, t) == rs \cup {Row(id, k, t, "pending")}

InsertRow(rs, k, id, t) ==
    IF HasKey(rs, k) THEN rs ELSE rs \cup {Row(id, k, t, "pending")}

\* add_output's return value: True unless sqlite3.IntegrityError
AddOutputRet(rs, k) == ~HasKey(rs, k)

\* SELECT COUNT(*) FROM output_queue WHERE status = 'pending'
CountAllRows(rs) == Cardinality(rs)

CountUnprocessed(rs) == Cardinality({r \in rs : r.status = "pending"})

CanProduceOffByOne(rs, max) == CountUnprocessed(rs) <= max

CanProduce(rs, max) == CountUnprocessed(rs) < max

\* wait_until_can_produce: while not self.can_produce(): time.sleep(check_interval)
WaitReturnsNever(rs, max) == FALSE

WaitReturnsAlways(rs, max) == TRUE

WaitReturnsEarly(rs, max) == CountUnprocessed(rs) + 1 < max

WaitReturns(rs, max) == CanProduce(rs, max)

\* _process_single_annotation: if unprocessed_count >= max_unprocessed: wait
RecountBlocksNever(rs, max) == FALSE

RecountBlocksAbove(rs, max) == CountUnprocessed(rs) > max

RecountBlocks(rs, max) == CountUnprocessed(rs) >= max

\* SELECT file_path ... WHERE status = 'pending' ORDER BY created_at ASC LIMIT 1
\* (rows of equal created_at come out in rowid order)
Older(r, s) == r.created_at < s.created_at
                 \/ (r.created_at = s.created_at /\ r.id <= s.id)

GetNextByKey(rs) ==
    IF PendingOf(rs) = {} THEN NoKey
    ELSE (CHOOSE r \in PendingOf(rs) : \A s \in PendingOf(rs) : r.key <= s.key).key

GetNextPending(rs) ==
    IF PendingOf(rs) = {} THEN NoKey
    ELSE (CHOOSE r \in PendingOf(rs) : \A s \in PendingOf(rs) : Older(r, s)).key

\* SELECT file_path, created_at FROM output_queue WHERE status = 'pending'
\* ORDER BY created_at ASC; rows of equal created_at come in table (id) order.
RECURSIVE SortByAge(_)
SortByAge(S) ==
    IF S = {} THEN << >>
    ELSE LET r == CHOOSE r \in S : \A s \in S : Older(r, s)
         IN  <<r>> \o SortByAge(S \ {r})

PairsOf(sq) == [i \in 1..Len(sq) |-> <<sq[i].key, sq[i].created_at>>]

Reverse(sq) == [i \in 1..Len(sq) |-> sq[Len(sq) + 1 - i]]

GetAllNewestFirst(rs) == PairsOf(Reverse(SortByAge(PendingOf(rs))))

GetAllPending(rs) == PairsOf(SortByAge(PendingOf(rs)))

\* UPDATE output_queue SET status = 'processing' WHERE file_path = ? AND status = 'pending'
MarkMatchAnyStatus(r, k) == r.key = k

MarkMatch(r, k) == r.key = k /\ r.status = "pending"

MarkProcessingRequeues(rs, k) ==
    {IF r.key = k
     THEN Row(r.id, r.key, r.created_at,
              IF r.status = "pending" THEN "processing" ELSE "pending")
     ELSE r : r \in rs}

MarkProcessingRows(rs, k) ==
    {IF MarkMatch(r, k) THEN [r EXCEPT !.status = "processing"] ELSE r : r \in rs}

\* cursor.rowcount > 0
MarkProcessingRetPresent(rs, k) == HasKey(rs, k)

MarkProcessingRet(rs, k) == \E r \in rs : MarkMatch(r, k)

\* DELETE FROM output_queue WHERE file_path = ?
MarkCompletedFlags(rs, k) ==
    {IF r.key = k THEN Row(r.id, r.key, r.created_at, "completed") ELSE r : r \in rs}

MarkCompletedPendingOnly(rs, k) == {r \in rs : ~(r.key = k /\ r.status = "pending")}

MarkCompletedRows(rs, k) == {r \in rs : r.key # k}

\* cleanup_missing_files: if not Path(file_path).exists(): DELETE ...
SweepDeletesInverted(fs, k) == k \in fs

SweepDeletes(fs, k) == k \notin fs

Op(op, k, ret) == [op |-> op, key |-> k, ret |-> ret]

\* ------------------------------------------------------------------ Init
\* Rows a previous run left behind: distinct keys, ids 1..n, created at time 0.
InitialTables ==
    {rs \in SUBSET {Row(k, k, 0, s) : k \in Keys, s \in Status} :
        /\ \A r1, r2 \in rs : r1.key = r2.key => r1 = r2
        /\ \A r \in rs : \A j \in 1..r.id : \E q \in rs : q.id = j}

InitQueue ==
    /\ rows \in InitialTables
    /\ nextId = Cardinality(rows) + 1
    /\ lastOp = Op("none", NoKey, TRUE)
    /\ markTrue = [k \in Paths |->
                     IF \E r \in rows : r.key = k /\ r.status = "processing" THEN 1 ELSE 0]
    /\ sweepPc = "idle"
    /\ sweepTodo = {}
    /\ sweepDel = {}
    /\ sweepPre = {}
    /\ sweepClean = TRUE

\* self.tile_delay = 0.5 if "openstreetmap.org" in self.tms_url else 0.1,
\* in ticks of the clock
TileDelay == 2

NoCall == [op |-> "none", key |-> NoKey, todo |-> {}]

\* nobody is inside a call of the store; TMSModality.__init__:
\* self.last_request_time = 0, long before any reading of time.time()
InitNoThreads ==
    /\ mutex = NoThread
    /\ dbWriter = NoThread
    /\ thPc = [t \in Threads |-> "idle"]
    /\ thOp = [t \in Threads |-> NoCall]
    /\ clock = TileDelay
    /\ last_request_time = 0
    /\ tPc = [w \in Workers |-> "idle"]
    /\ tWake = [w \in Workers |-> 0]

\* one run of main, compared with no other
NoTwin == [phase |-> "off", oracle |-> [i \in Items |-> "ok"], rows0 |-> {},
           rows1 |-> {}, saved1 |-> 0]

\* main inside the processing of its first modality, per-item output
InitOneModality ==
    /\ InitNoThreads
    /\ total_saved = 0
    /\ dbOpened = TRUE
    /\ confOk = TRUE
    /\ modIdx = 1
    /\ modLog = [m \in Mods |-> "todo"]
    /\ fmt = "tif"
    /\ outs = <<>>
    /\ batchOuts = <<>>
    /\ writeAlls = <<>>

\* no run of main
InitNoRun ==
    /\ InitOneModality
    /\ twin = NoTwin
    /\ num_workers = 1
    /\ incremental = FALSE
    /\ batch_size = 1
    /\ mainPc = "done"
    /\ pos = 1
    /\ cur = NoItem
    /\ taskQ = <<>>
    /\ futures = {}
    /\ wPc = [w \in Workers |-> "idle"]
    /\ wItem = [w \in Workers |-> NoItem]
    /\ result = [i \in Items |-> "none"]
    /\ saved = 0
    /\ waited = FALSE
    /\ consumer = FALSE

\* --------------------------------------------------- QueueManager (steps)
\* A write statement waits while another connection holds the write lock.
WriteLockFree == sweepDel = {}

\* what a write or a file change does to a sweep in progress
Disturb ==
    /\ sweepClean' = (sweepPc = "idle" /\ sweepClean)
    /\ sweepPre' = {}
    /\ UNCHANGED <<sweepPc, sweepTodo, sweepDel>>

\* add_output(file_path); t is what time.time() returns
AddOutput(k, t) ==
    /\ WriteLockFree
    /\ nextId <= MaxId
    /\ rows' = InsertRow(rows, k, nextId, t)
    /\ nextId' = IF rows' = rows THEN nextId ELSE nextId + 1
    /\ now' = t
    /\ lastOp' = Op("add_output", k, AddOutputRet(rows, k))
    /\ markTrue' = IF rows' = rows THEN markTrue ELSE [markTrue EXCEPT ![k] = 0]
    /\ Disturb
    /\ UNCHANGED <<files, max_unprocessed>>
    /\ UNCHANGED pipeVars

\* mark_processing(file_path)
MarkProcessing(k) ==
    /\ WriteLockFree
    /\ rows' = MarkProcessingRows(rows, k)
    /\ lastOp' = Op("mark_processing", k, MarkProcessingRet(rows, k))
    /\ markTrue' = [markTrue EXCEPT
                      ![k] = IF MarkProcessingRet(rows, k) THEN Min(2, @ + 1) ELSE @]
    /\ Disturb
    /\ UNCHANGED <<nextId, now, files, max_unprocessed>>
    /\ UNCHANGED pipeVars

\* mark_completed(file_path)
MarkCompleted(k) ==
    /\ WriteLockFree
    /\ rows' = MarkCompletedRows(rows, k)
    /\ lastOp' = Op("mark_completed", k, TRUE)
    /\ markTrue' = [markTrue EXCEPT ![k] = 0]
    /\ Disturb
    /\ UNCHANGED <<nextId, now, files, max_unprocessed>>
    /\ UNCHANGED pipeVars

\* cleanup_missing_files: cursor = conn.execute("SELECT file_path FROM output_queue")
SweepSelect ==
    /\ sweepPc = "idle"
    /\ sweepPc' = "scan"
    /\ sweepTodo' = {r.key : r \in rows}
    /\ sweepDel' = {}
    /\ sweepPre' = rows
    /\ sweepClean' = TRUE
    /\ lastOp' = Op("cleanup_scan", NoKey, TRUE)
    /\ UNCHANGED <<rows, nextId, now, files, max_unprocessed, markTrue>>
    /\ UNCHANGED pipeVars

\* one turn of its loop: test the file, DELETE inside the open transaction
SweepRow(k) ==
    /\ sweepPc = "scan"
    /\ k \in sweepTodo
    /\ sweepTodo' = sweepTodo \ {k}
    /\ sweepDel' = IF SweepDeletes(files, k) /\ HasKey(rows, k)
                   THEN sweepDel \cup {k} ELSE sweepDel
    /\ lastOp' = Op("cleanup_scan", NoKey, TRUE)
    /\ UNCHANGED <<rows, nextId, now, files, max_unprocessed, markTrue,
                   sweepPc, sweepPre, sweepClean>>
    /\ UNCHANGED pipeVars

\* conn.commit()
SweepCommit ==
    /\ sweepPc = "scan"
    /\ sweepTodo = {}
    /\ rows' = {r \in rows : r.key \notin sweepDel}
    /\ sweepPc' = "idle"
    /\ sweepDel' = {}
    /\ sweepPre' = {}
    /\ lastOp' = Op("cleanup_missing_files", NoKey, sweepDel # {})
    /\ markTrue' = [k \in Paths |-> IF k \in sweepDel THEN 0 ELSE markTrue[k]]
    /\ UNCHANGED <<nextId, now, files, max_unprocessed, sweepTodo, sweepClean>>
    /\ UNCHANGED pipeVars

\* ------------------------------------------------------------ environment
\* an artifact appears on or disappears from the disk
FileChange(k) ==
    /\ files' = IF k \in files THEN files \ {k} ELSE files \cup {k}
    /\ lastOp' = Op("file_change", NoKey, TRUE)
    /\ Disturb
    /\ UNCHANGED <<rows, nextId, now, max_unprocessed, markTrue>>
    /\ UNCHANGED pipeVars

\* what time.time() may return next
Readings == {t \in now..MaxTime : t <= now + 1}

\* --------------------------------------------------- the store on its own
InitStore ==
    /\ InitQueue
    /\ InitNoRun
    /\ now = 0
    /\ files = Keys
    /\ max_unprocessed \in 1..MaxCeiling

NextStore ==
    \/ \E k \in Keys : \E t \in Readings : AddOutput(k, t)
    \/ \E k \in Keys : MarkProcessing(k)
    \/ \E k \in Keys : MarkCompleted(k)

SpecStore == InitStore /\ [][NextStore]_vars

\* ---- the store called with paths as the callers spell them: a path is
\* the sequence of its components, absolute when it starts with "/"
\* the directory the process runs in
Cwd == <<"/", "out">>

\* spellings of /out/a and of /tmp/a
Spellings == {<<"a">>, <<".", "a">>, <<"..", "out", "a">>, <<"/", "out", "a">>,
              <<"/", "tmp", "..", "out", "a">>, <<"/", "tmp", "a">>,
              <<"..", "tmp", "a">>}

\* Path.resolve(): "." is dropped and ".." takes the last component off
\* (never the root); no symbolic links
RECURSIVE Normalize(_, _)
Normalize(acc, rest) ==
    IF rest = <<>> THEN acc
    ELSE LET c == Head(rest) IN
         CASE c = "." -> Normalize(acc, Tail(rest))
           [] c = ".." -> Normalize(IF Len(acc) > 1 THEN SubSeq(acc, 1, Len(acc) - 1)
                                    ELSE acc, Tail(rest))
           [] OTHER -> Normalize(Append(acc, c), Tail(rest))

\* Path(file_path).absolute(): made absolute, the dots left in
ResolveAsGiven(p) == IF Head(p) = "/" THEN p ELSE Cwd \o p

\* file_path = str(Path(file_path).resolve())
Resolve(p) ==
    IF Head(p) = "/" THEN Normalize(<<"/">>, Tail(p)) ELSE Normalize(Cwd, p)

\* the value of the file_path column as a key of the table: one string, one key
KeyOfPath(str) == IF str = <<"/", "out", "a">> THEN 1 ELSE 2

AddOutputAs(p, t) == AddOutput(KeyOfPath(Resolve(p)), t)

MarkProcessingAs(p) == MarkProcessing(KeyOfPath(Resolve(p)))

MarkCompletedAs(p) == MarkCompleted(KeyOfPath(Resolve(p)))

NextSpelled ==
    \/ \E p \in Spellings : \E t \in Readings : AddOutputAs(p, t)
    \/ \E p \in Spellings : MarkProcessingAs(p)
    \/ \E p \in Spellings : MarkCompletedAs(p)

SpecSpelled == InitStore /\ [][NextSpelled]_vars

\* ---- the store with its read calls: each is one SELECT on a connection of
\* its own, closed without a commit
\* what get_next_pending leaves of the table: it neither deletes nor claims
\* the row whose key it returns
AfterGetNextClaims(rs) == MarkProcessingRows(rs, GetNextPending(rs))

AfterGetNext(rs) == rs

ReadOps == {"count_unprocessed", "can_produce", "get_next_pending", "get_all_pending"}

readKept == UNCHANGED <<nextId, now, files, max_unprocessed, markTrue, sweepPc,
                        sweepTodo, sweepDel, sweepPre, sweepClean, pipeVars>>

\* count_unprocessed(): SELECT COUNT(*) ... WHERE status = 'pending'
CountUnprocessedCall ==
    /\ lastOp' = Op("count_unprocessed", NoKey, CountUnprocessed(rows) > 0)
    /\ UNCHANGED rows /\ readKept

\* can_produce(): return self.count_unprocessed() < self.max_unprocessed
CanProduceCall ==
    /\ lastOp' = Op("can_produce", NoKey, CanProduce(rows, max_unprocessed))
    /\ UNCHANGED rows /\ readKept

\* get_next_pending(): return row['file_path'] if row else None
GetNextPendingCall ==
    /\ lastOp' = Op("get_next_pending", GetNextPending(rows), GetNextPending(rows) # NoKey)
    /\ rows' = AfterGetNext(rows)
    /\ readKept

\* get_all_pending(): return [(row['file_path'], row['created_at']) for row in cursor.fetchall()]
GetAllPendingCall ==
    /\ lastOp' = Op("get_all_pending",
                    IF GetAllPending(rows) = << >> THEN NoKey ELSE GetAllPending(rows)[1][1],
                    GetAllPending(rows) # << >>)
    /\ UNCHANGED rows /\ readKept

ReadStep ==
    \/ CountUnprocessedCall
    \/ CanProduceCall
    \/ GetNextPendingCall
    \/ GetAllPendingCall

NextReads == NextStore \/ ReadStep

SpecReads == InitStore /\ [][NextReads]_vars

\* ------------------------------------- the store with the recovery sweep
NextSweep ==
    \/ SweepSelect
    \/ \E k \in Keys : SweepRow(k)
    \/ SweepCommit
    \/ \E k \in Keys : FileChange(k)
    \/ \E k \in Keys : AddOutput(k, now)
    \/ \E k \in Keys : MarkProcessing(k)
    \/ \E k \in Keys : MarkCompleted(k)

\* the rows of the previous run are older than this one's
InitSweep ==
    /\ InitQueue
    /\ InitNoRun
    /\ now \in {0, MaxTime}
    /\ files \in SUBSET Keys
    /\ max_unprocessed = 1

SpecSweep == InitSweep /\ [][NextSweep]_vars

\* ================================================================== main
\* what modality.process_annotation and writer.write do for one item:
\* "ok" an artifact is returned and written, "skip" process_annotation
\* returns None, "raises" one of the two raises
Outcomes == {"ok", "skip", "raises"}

\* if output: (if not output: return ...) and no exception on the way:
\* the item goes on to queue_manager.add_output
ProceedsOnRaise(o) == o \in {"ok", "raises"}

ProceedsOnSkip(o) == o \in {"ok", "skip"}

Proceeds(o) == o = "ok"

Quiet == UNCHANGED lastOp

storeKept == UNCHANGED <<rows, nextId, now, max_unprocessed, markTrue,
                         sweepPc, sweepTodo, sweepDel, sweepPre, sweepClean>>

cfgKept == UNCHANGED <<num_workers, incremental, batch_size, consumer, dbOpened,
                       confOk, modIdx, modLog, fmt, outs, batchOuts, writeAlls,
                       total_saved, threadVars, twin>>

\* str(path) of the file the writer makes for item i: output_dir has the
\* modality's name in it when several modalities are configured
PathOf(i) == (modIdx - 1) * NumItems + i

\* queue_manager.add_output(str(path)) as the producer calls it
ProducerAdd(i) ==
    /\ rows' = InsertRow(rows, PathOf(i), nextId, now)
    /\ nextId' = IF rows' = rows THEN nextId ELSE nextId + 1
    /\ markTrue' = IF rows' = rows THEN markTrue ELSE [markTrue EXCEPT ![PathOf(i)] = 0]
    /\ result' = [result EXCEPT ![i] = IF AddOutputRet(rows, PathOf(i)) THEN "queued" ELSE "duplicate"]
    /\ UNCHANGED <<now, files, max_unprocessed, lastOp, sweepPc, sweepTodo, sweepDel,
                   sweepPre, sweepClean>>

\* ---- num_workers = 1: the sequential loops
\* a turn of the loop starts: if not queue_manager.can_produce(): ... wait
SeqTurn ==
    /\ mainPc = "next" /\ num_workers = 1 /\ pos <= NumItems
    /\ cur' = pos
    /\ pos' = pos + 1
    /\ mainPc' = IF CanProduce(rows, max_unprocessed) THEN "produce" ELSE "wait"
    /\ waited' = ~CanProduce(rows, max_unprocessed)
    /\ Quiet /\ storeKept /\ cfgKept
    /\ UNCHANGED <<files, taskQ, futures, wPc, wItem, result, saved>>

\* queue_manager.wait_until_can_produce() returns
SeqWait ==
    /\ mainPc = "wait"
    /\ WaitReturns(rows, max_unprocessed)
    /\ mainPc' = "produce"
    /\ Quiet /\ storeKept /\ cfgKept
    /\ UNCHANGED <<files, pos, cur, taskQ, futures, wPc, wItem, result, saved, waited>>

\* output = modality.process_annotation(annotation); if output: path = writer.write(...)
\* saved_paths.append(path).  An exception leaves the loops (except Exception, line 518).
SeqProduce(o) ==
    /\ mainPc = "produce"
    /\ mainPc' = IF Proceeds(o) THEN "add" ELSE IF o = "skip" THEN "next" ELSE "aborted"
    /\ files' = IF o = "ok" THEN files \cup {PathOf(cur)} ELSE files
    /\ saved' = IF o = "ok" THEN saved + 1 ELSE saved
    /\ result' = CASE o = "ok" -> result
                   [] o = "skip" -> [result EXCEPT ![cur] = "skipped"]
                   [] o = "raises" -> [result EXCEPT ![cur] = "failed"]
    /\ Quiet /\ storeKept /\ cfgKept
    /\ UNCHANGED <<pos, cur, taskQ, futures, wPc, wItem, waited>>

\* if queue_manager.add_output(str(path)): batch_saved += 1
SeqAdd ==
    /\ mainPc = "add"
    /\ ProducerAdd(cur)
    /\ mainPc' = "next"
    /\ cfgKept
    /\ UNCHANGED <<pos, cur, taskQ, futures, wPc, wItem, saved, waited>>

\* ---- num_workers > 1: ThreadPoolExecutor
\* items submitted together: batch_size of the list, or num_workers of the generator
ChunkSize == IF incremental THEN num_workers ELSE batch_size

\* executor.submit(process_func, ann) for every item of the next chunk
ParSubmit ==
    /\ mainPc = "next" /\ num_workers > 1 /\ pos <= NumItems
    /\ LET end == Min(pos + ChunkSize - 1, NumItems) IN
        /\ taskQ' = [j \in 1..(end - pos + 1) |-> pos + j - 1]
        /\ futures' = pos..end
        /\ pos' = end + 1
    /\ mainPc' = "collect"
    /\ Quiet /\ storeKept /\ cfgKept
    /\ UNCHANGED <<files, cur, wPc, wItem, result, saved, waited>>

\* a pool thread takes a task and enters _process_single_annotation:
\* if not queue_manager.can_produce():
WorkerTake(w) ==
    /\ w <= num_workers /\ wPc[w] = "idle" /\ taskQ # <<>>
    /\ \A v \in 1..(w - 1) : wPc[v] # "idle"   \* idle threads are interchangeable
    /\ wItem' = [wItem EXCEPT ![w] = Head(taskQ)]
    /\ taskQ' = Tail(taskQ)
    /\ wPc' = [wPc EXCEPT ![w] = IF CanProduce(rows, max_unprocessed)
                                  THEN "produce" ELSE "recount"]
    /\ Quiet /\ storeKept /\ cfgKept
    /\ UNCHANGED <<files, mainPc, pos, cur, futures, result, saved, waited>>

\* unprocessed_count = queue_manager.count_unprocessed()
\* if unprocessed_count >= max_unprocessed: queue_manager.wait_until_can_produce()
WorkerRecount(w) ==
    /\ wPc[w] = "recount"
    /\ wPc' = [wPc EXCEPT ![w] = IF RecountBlocks(rows, max_unprocessed)
                                  THEN "wait" ELSE "produce"]
    /\ Quiet /\ storeKept /\ cfgKept
    /\ UNCHANGED <<files, mainPc, pos, cur, taskQ, futures, wItem, result, saved, waited>>

WorkerWait(w) ==
    /\ wPc[w] = "wait"
    /\ WaitReturns(rows, max_unprocessed)
    /\ wPc' = [wPc EXCEPT ![w] = "produce"]
    /\ Quiet /\ storeKept /\ cfgKept
    /\ UNCHANGED <<files, mainPc, pos, cur, taskQ, futures, wItem, result, saved, waited>>

\* process_annotation and writer.write; except Exception: return (False, None, id)
WorkerProduce(w, o) ==
    /\ wPc[w] = "produce"
    /\ wPc' = [wPc EXCEPT ![w] = IF Proceeds(o) THEN "add" ELSE "idle"]
    /\ wItem' = [wItem EXCEPT ![w] = IF Proceeds(o) THEN @ ELSE NoItem]
    /\ files' = IF o = "ok" THEN files \cup {PathOf(wItem[w])} ELSE files
    /\ result' = CASE o = "ok" -> result
                   [] o = "skip" -> [result EXCEPT ![wItem[w]] = "skipped"]
                   [] o = "raises" -> [result EXCEPT ![wItem[w]] = "failed"]
    /\ futures' = IF Proceeds(o) THEN futures ELSE futures \ {wItem[w]}
    /\ Quiet /\ storeKept /\ cfgKept
    /\ UNCHANGED <<mainPc, pos, cur, taskQ, saved, waited>>

\* return (True, path, id) if queue_manager.add_output(str(path)) else (False, path, id);
\* main, in as_completed: if success and path: saved_paths.append(path)
WorkerAdd(w) ==
    /\ wPc[w] = "add"
    /\ ProducerAdd(wItem[w])
    /\ wPc' = [wPc EXCEPT ![w] = "idle"]
    /\ wItem' = [wItem EXCEPT ![w] = NoItem]
    /\ futures' = futures \ {wItem[w]}
    /\ saved' = IF AddOutputRet(rows, PathOf(wItem[w])) THEN saved + 1 ELSE saved
    /\ cfgKept
    /\ UNCHANGED <<mainPc, pos, cur, taskQ, waited>>

\* for future in as_completed(futures): ... future.result(): the loop ends
\* when every future of the chunk has resolved and been folded
AsCompletedFirst == futures # {} /\ taskQ = << >>

AsCompleted == futures = {}

\* as_completed is exhausted: the next chunk
ChunkEnd ==
    /\ mainPc = "collect" /\ AsCompleted
    /\ mainPc' = "next"
    /\ Quiet /\ storeKept /\ cfgKept
    /\ UNCHANGED <<files, pos, cur, taskQ, futures, wPc, wItem, result, saved, waited>>

\* num_batches = (total_annotations + batch_size - 1) // batch_size
NumBatchesFloor == NumItems \div batch_size

NumBatches == (NumItems + batch_size - 1) \div batch_size

\* the loop over the source ends: no batch of the list is left, or the
\* generator is exhausted and the annotations still in batch_annotations
\* have been processed (if batch_annotations: ...)
SourceExhaustedNoRest ==
    \/ pos > NumItems
    \/ incremental /\ num_workers > 1 /\ NumItems - pos + 1 < num_workers

SourceExhausted ==
    IF incremental THEN pos > NumItems
    ELSE pos > Min(NumBatches * batch_size, NumItems)

\* the source is exhausted: total_saved += len(saved_paths)
RunEnd ==
    /\ mainPc = "next" /\ SourceExhausted
    /\ mainPc' = "done"
    /\ Quiet /\ storeKept /\ cfgKept
    /\ UNCHANGED <<files, pos, cur, taskQ, futures, wPc, wItem, result, saved, waited>>

\* ---- the consumer process (its calls into QueueManager)
consumerKept == UNCHANGED <<nextId, now, files, max_unprocessed, lastOp, sweepPc,
                            sweepTodo, sweepDel, sweepPre, sweepClean, pipeVars>>

\* mark_processing(key) on a row it got from get_next_pending or get_all_pending
ConsumerClaim(k) ==
    /\ consumer
    /\ MarkProcessingRet(rows, k)
    /\ rows' = MarkProcessingRows(rows, k)
    /\ markTrue' = [markTrue EXCEPT ![k] = Min(2, @ + 1)]
    /\ consumerKept

\* mark_completed(key)
ConsumerComplete(k) ==
    /\ consumer
    /\ HasKey(rows, k)
    /\ rows' = MarkCompletedRows(rows, k)
    /\ markTrue' = [markTrue EXCEPT ![k] = 0]
    /\ consumerKept

\* ---- a run of main over one modality; the rows an earlier run left are
\* older than anything this run adds
\* batch_size decides the chunks of the list under a pool only; elsewhere it
\* sets how often progress is printed, and one value stands for all
BatchSizes == IF num_workers > 1 /\ ~incremental THEN 1..NumItems ELSE {1}

InitRun ==
    /\ InitQueue
    /\ InitOneModality
    /\ now = MaxTime
    /\ files = {r.key : r \in rows}
    /\ max_unprocessed \in 1..MaxCeiling
    /\ Cardinality(rows) <= MaxLeftover
    /\ CountUnprocessed(rows) <= max_unprocessed
    /\ incremental \in BOOLEAN
    /\ batch_size \in BatchSizes
    /\ consumer \in BOOLEAN
    /\ mainPc = "next"
    /\ pos = 1
    /\ cur = NoItem
    /\ taskQ = <<>>
    /\ futures = {}
    /\ wPc = [w \in Workers |-> "idle"]
    /\ wItem = [w \in Workers |-> NoItem]
    /\ result = [i \in Items |-> "none"]
    /\ saved = 0
    /\ waited = FALSE

WorkerStep(w) ==
    \/ WorkerTake(w)
    \/ WorkerRecount(w)
    \/ WorkerWait(w)
    \/ \E o \in Outcomes : WorkerProduce(w, o)
    \/ WorkerAdd(w)

SeqStep ==
    \/ SeqTurn
    \/ SeqWait
    \/ \E o \in Outcomes : SeqProduce(o)
    \/ SeqAdd
    \/ RunEnd

ParStep ==
    \/ ParSubmit
    \/ ChunkEnd
    \/ \E w \in Workers : WorkerStep(w)

ConsumerStep ==
    \/ \E k \in Paths : ConsumerClaim(k)
    \/ \E k \in Paths : ConsumerComplete(k)

\* ---- any num_workers, with or without a consumer
InitPipe ==
    /\ num_workers \in 1..MaxWorkers
    /\ InitRun
    /\ twin = NoTwin

NextPipe == SeqStep \/ ParStep \/ ConsumerStep

SpecPipe == InitPipe /\ [][NextPipe]_vars

\* ================================================= main, from its start
\* what the steps outside the per-item pipeline leave alone
tableKept == UNCHANGED <<rows, nextId, now, files, max_unprocessed, lastOp, markTrue,
                         sweepPc, sweepTodo, sweepDel, sweepPre, sweepClean>>

argsKept == UNCHANGED <<num_workers, incremental, batch_size, consumer, confOk,
                        threadVars, twin>>

poolKept == UNCHANGED <<taskQ, futures, wPc, wItem>>

\* queue_manager = QueueManager(db_path=queue_db_path, max_unprocessed=max_unprocessed)
\* _init_database: CREATE TABLE IF NOT EXISTS output_queue, CREATE INDEX IF NOT
\* EXISTS idx_status, commit: a table that is there keeps its rows, and one
\* that is not starts without any
InitDatabaseAnew(rs) == {}

InitDatabase(rs) == rs

MainOpenQueue ==
    /\ mainPc = "start"
    /\ dbOpened' = TRUE
    /\ mainPc' = "config"
    /\ rows' = InitDatabase(rows)
    /\ UNCHANGED <<nextId, now, files, max_unprocessed, lastOp, markTrue,
                   sweepPc, sweepTodo, sweepDel, sweepPre, sweepClean>>
    /\ argsKept /\ poolKept /\ UNCHANGED total_saved
    /\ UNCHANGED <<pos, cur, result, saved, waited, modIdx, modLog, fmt, outs,
                   batchOuts, writeAlls>>

\* conf = OmegaConf.load(...); if neither bbox nor the filter parameters:
\* raise ValueError; else the source and its annotations are made
MainLoadConfig ==
    /\ mainPc = "config"
    /\ mainPc' = IF confOk THEN "modality" ELSE "config_error"
    /\ tableKept /\ argsKept /\ poolKept /\ UNCHANGED total_saved
    /\ UNCHANGED <<pos, cur, result, saved, waited, dbOpened, modIdx, modLog, fmt,
                   outs, batchOuts, writeAlls>>

\* for idx, modality_config in enumerate(modalities_list): a modality that
\* is not processed: create_modality raises (except Exception: continue) or
\* the output format is unsupported (continue)
ModSkip(why) ==
    /\ mainPc = "modality" /\ modIdx <= NumMods
    /\ modLog' = [modLog EXCEPT ![modIdx] = why]
    /\ modIdx' = modIdx + 1
    /\ tableKept /\ argsKept /\ poolKept /\ UNCHANGED total_saved
    /\ UNCHANGED <<mainPc, pos, cur, result, saved, waited, dbOpened, fmt, outs,
                   batchOuts, writeAlls>>

\* if output_format == "h5" or output_format == "hdf5": the loops that
\* collect the outputs for write_all; else: the per-item loops
BranchPerItem(f) == "next"

BranchOf(f) == IF f = "h5" THEN "h5" ELSE "next"

\* the modality and its writer are made; try: saved_paths = [] ...
ModBegin(f) ==
    /\ mainPc = "modality" /\ modIdx <= NumMods
    /\ fmt' = f
    /\ mainPc' = BranchOf(f)
    /\ pos' = 1
    /\ cur' = NoItem
    /\ result' = [i \in Items |-> "none"]
    /\ saved' = 0
    /\ waited' = FALSE
    /\ outs' = <<>>
    /\ batchOuts' = <<>>
    /\ writeAlls' = <<>>
    /\ tableKept /\ argsKept /\ poolKept /\ UNCHANGED total_saved
    /\ UNCHANGED <<dbOpened, modIdx, modLog>>

\* ---- batched output (HDF5): no per-item write, no queue call
\* all_modality_outputs.extend(batch_outputs)
ExtendOutsLast(all, batch) == batch

ExtendOuts(all, batch) == all \o batch

\* the item at pos is the last of its batch of the list
EndOfBatch == pos % batch_size = 0 \/ pos = NumItems

\* output = modality.process_annotation(annotation); if output: ...append((annotation, output))
H5Process(o) ==
    /\ mainPc = "h5" /\ pos <= NumItems
    /\ pos' = pos + 1
    /\ mainPc' = IF o = "raises" THEN "aborted" ELSE "h5"
    /\ result' = [result EXCEPT ![pos] = CASE o = "ok" -> "collected"
                                           [] o = "skip" -> "skipped"
                                           [] o = "raises" -> "failed"]
    /\ LET got == IF o = "ok" THEN <<pos>> ELSE <<>> IN
        IF incremental
        THEN /\ outs' = outs \o got
             /\ batchOuts' = batchOuts
        ELSE IF o # "raises" /\ EndOfBatch
        THEN /\ outs' = ExtendOuts(outs, batchOuts \o got)
             /\ batchOuts' = <<>>
        ELSE /\ outs' = outs
             /\ batchOuts' = batchOuts \o got
    /\ tableKept /\ argsKept /\ poolKept /\ UNCHANGED total_saved
    /\ UNCHANGED <<cur, saved, waited, dbOpened, modIdx, modLog, fmt, writeAlls>>

\* if all_modality_outputs: path = writer.write_all(all_modality_outputs);
\* saved_paths.append(path)
H5WriteAll(o) ==
    /\ mainPc = "h5" /\ pos > NumItems
    /\ IF outs = <<>>
       THEN /\ mainPc' = "done"
            /\ UNCHANGED <<writeAlls, saved>>
       ELSE /\ writeAlls' = Append(writeAlls, outs)
            /\ saved' = IF o = "ok" THEN saved + 1 ELSE saved
            /\ mainPc' = IF o = "ok" THEN "done" ELSE "aborted"
    /\ tableKept /\ argsKept /\ poolKept /\ UNCHANGED total_saved
    /\ UNCHANGED <<pos, cur, result, waited, dbOpened, modIdx, modLog, fmt, outs, batchOuts>>

\* where the loop over the modalities goes when a modality's try block
\* ends, normally or in except Exception: ... continue
AfterModalityStop(pc) == IF pc = "aborted" THEN "finished" ELSE "modality"

AfterModality(pc) == "modality"

\* total_saved += len(saved_paths) is the last statement of the try block:
\* except Exception: ... continue goes past it
TotalAfter(pc, total, n) == IF pc = "done" THEN total + n ELSE total

\* total_saved += len(saved_paths), or except Exception: continue; the
\* locals of the modality's processing are dead from here on
ModEnd ==
    /\ mainPc \in {"done", "aborted"}
    /\ modLog' = [modLog EXCEPT ![modIdx] = mainPc]
    /\ modIdx' = modIdx + 1
    /\ total_saved' = TotalAfter(mainPc, total_saved, saved)
    /\ mainPc' = AfterModality(mainPc)
    /\ pos' = 1
    /\ cur' = NoItem
    /\ result' = [i \in Items |-> "none"]
    /\ saved' = 0
    /\ waited' = FALSE
    /\ fmt' = "tif"
    /\ outs' = <<>>
    /\ batchOuts' = <<>>
    /\ writeAlls' = <<>>
    /\ tableKept /\ argsKept /\ poolKept
    /\ UNCHANGED dbOpened

\* modalities_list is exhausted: print the total, return source
MainEnd ==
    /\ mainPc = "modality" /\ modIdx > NumMods
    /\ mainPc' = "finished"
    /\ tableKept /\ argsKept /\ poolKept /\ UNCHANGED total_saved
    /\ UNCHANGED <<pos, cur, result, saved, waited, dbOpened, modIdx, modLog, fmt,
                   outs, batchOuts, writeAlls>>

MainStep ==
    \/ MainOpenQueue
    \/ MainLoadConfig
    \/ \E why \in {"create_failed", "unsupported"} : ModSkip(why)
    \/ \E f \in {"tif", "h5"} : ModBegin(f)
    \/ \E o \in Outcomes : H5Process(o)
    \/ \E o \in {"ok", "raises"} : H5WriteAll(o)
    \/ ModEnd
    \/ MainEnd

\* a sequential run with no consumer beside it; batch_size decides
\* something in the sequential code only for the batches of the list under
\* batched output
InitMain ==
    /\ InitQueue
    /\ now = MaxTime
    /\ files = {r.key : r \in rows}
    /\ max_unprocessed \in 1..MaxCeiling
    /\ Cardinality(rows) <= MaxLeftover
    /\ CountUnprocessed(rows) <= max_unprocessed
    /\ num_workers = 1
    /\ incremental \in BOOLEAN
    /\ batch_size \in (IF incremental THEN {1} ELSE 1..NumItems)
    /\ consumer = FALSE
    /\ InitNoThreads
    /\ twin = NoTwin
    /\ total_saved = 0
    /\ confOk \in BOOLEAN
    /\ dbOpened = FALSE
    /\ mainPc = "start"
    /\ modIdx = 1
    /\ modLog = [m \in Mods |-> "todo"]
    /\ fmt = "tif"
    /\ outs = <<>>
    /\ batchOuts = <<>>
    /\ writeAlls = <<>>
    /\ pos = 1
    /\ cur = NoItem
    /\ taskQ = <<>>
    /\ futures = {}
    /\ wPc = [w \in Workers |-> "idle"]
    /\ wItem = [w \in Workers |-> NoItem]
    /\ result = [i \in Items |-> "none"]
    /\ saved = 0
    /\ waited = FALSE

\* with nobody draining the queue wait_until_can_produce does not return
NextMain ==
    \/ MainStep
    \/ SeqTurn
    \/ \E o \in Outcomes : SeqProduce(o)
    \/ SeqAdd
    \/ RunEnd

SpecMain == InitMain /\ [][NextMain]_vars

\* ---- storage errors: a QueueManager call raises sqlite3.OperationalError
\* (database is locked after the 30 s timeout, disk I/O error); add_output
\* catches sqlite3.IntegrityError only
\* in the sequential loops the call is can_produce, wait_until_can_produce
\* or add_output; nothing catches the error before line 518
SeqStoreError ==
    /\ num_workers = 1
    /\ \/ mainPc = "next" /\ pos <= NumItems
       \/ mainPc \in {"wait", "add"}
    /\ cur' = IF mainPc = "next" THEN pos ELSE cur
    /\ pos' = IF mainPc = "next" THEN pos + 1 ELSE pos
    /\ lastOp' = Op("storage_error", cur', FALSE)
    /\ mainPc' = "aborted"
    /\ storeKept /\ cfgKept
    /\ UNCHANGED <<files, taskQ, futures, wPc, wItem, result, saved, waited>>

\* in _process_single_annotation the call is inside try: ... except Exception:
\* return (False, None, annotation.id)
WorkerStoreError(w) ==
    /\ w <= num_workers
    /\ \/ wPc[w] \in {"recount", "wait", "add"}
       \/ wPc[w] = "idle" /\ taskQ # <<>> /\ \A v \in 1..(w - 1) : wPc[v] # "idle"
    /\ LET i == IF wPc[w] = "idle" THEN Head(taskQ) ELSE wItem[w] IN
        /\ result' = [result EXCEPT ![i] = "failed"]
        /\ futures' = futures \ {i}
        /\ lastOp' = Op("storage_error", i, FALSE)
    /\ taskQ' = IF wPc[w] = "idle" THEN Tail(taskQ) ELSE taskQ
    /\ wPc' = [wPc EXCEPT ![w] = "idle"]
    /\ wItem' = [wItem EXCEPT ![w] = NoItem]
    /\ storeKept /\ cfgKept
    /\ UNCHANGED <<files, mainPc, pos, cur, saved, waited>>

NextFault ==
    \/ NextPipe
    \/ SeqStoreError
    \/ \E w \in Workers : WorkerStoreError(w)

SpecFault == InitPipe /\ [][NextFault]_vars

\* ---- num_workers = 1 beside a consumer; main's thread is scheduled
\* again and again, the consumer may stop at any time
InitLive ==
    /\ InitPipe
    /\ num_workers = 1
    /\ consumer = TRUE

NextLive == SeqStep \/ ConsumerStep

SpecLive == InitLive /\ [][NextLive]_vars /\ WF_vars(SeqStep)

\* ---- a whole run of main: every modality, any num_workers, beside a
\* consumer that takes the oldest pending row and removes it when the
\* pending count has reached max_unprocessed
Drain ==
    /\ PendingOf(rows) # {}
    /\ CountUnprocessed(rows) >= max_unprocessed
    /\ ConsumerComplete(GetNextPending(rows))

InitWhole ==
    /\ InitQueue
    /\ now = MaxTime
    /\ files = {r.key : r \in rows}
    /\ max_unprocessed \in 1..MaxCeiling
    /\ Cardinality(rows) <= MaxLeftover
    /\ CountUnprocessed(rows) <= max_unprocessed
    /\ num_workers \in 1..MaxWorkers
    /\ incremental \in BOOLEAN
    /\ batch_size \in BatchSizes
    /\ consumer = TRUE
    /\ InitNoThreads
    /\ twin = NoTwin
    /\ total_saved = 0
    /\ confOk = TRUE
    /\ dbOpened = FALSE
    /\ mainPc = "start"
    /\ modIdx = 1
    /\ modLog = [m \in Mods |-> "todo"]
    /\ fmt = "tif"
    /\ outs = <<>>
    /\ batchOuts = <<>>
    /\ writeAlls = <<>>
    /\ pos = 1
    /\ cur = NoItem
    /\ taskQ = <<>>
    /\ futures = {}
    /\ wPc = [w \in Workers |-> "idle"]
    /\ wItem = [w \in Workers |-> NoItem]
    /\ result = [i \in Items |-> "none"]
    /\ saved = 0
    /\ waited = FALSE

MainThread == MainStep \/ SeqStep \/ ParSubmit \/ ChunkEnd

NextWhole == MainThread \/ (\E w \in Workers : WorkerStep(w)) \/ Drain

SpecWhole ==
    /\ InitWhole /\ [][NextWhole]_vars
    /\ WF_vars(MainThread)
    /\ \A w \in Workers : WF_vars(WorkerStep(w))
    /\ WF_vars(Drain)

\* ---- the calls of the store as their threads run them: `with self._lock`
\* where the method has it, the statement that takes SQLite's write lock,
\* commit and close that give it back
tilesKept == UNCHANGED <<clock, last_request_time, tPc, tWake>>

callKept == UNCHANGED <<now, files, max_unprocessed, lastOp, markTrue, sweepPc,
                        sweepTodo, sweepDel, sweepPre, sweepClean, runVars, twin>>

\* the methods whose body is inside `with self._lock:`
TakesLock(op) == op = "add_output"

WriteOps == {"add_output", "mark_processing", "mark_completed", "cleanup_missing_files"}

\* the call enters; add_output: with self._lock: (blocks while another
\* thread holds it); cleanup_missing_files: its SELECT and the exists() tests
CallEnter(t, op, k) ==
    /\ thPc[t] = "idle"
    /\ \A u \in 1..(t - 1) : thPc[u] # "idle"   \* idle threads are interchangeable
    /\ op = "add_output" => nextId <= MaxId
    /\ TakesLock(op) => mutex = NoThread
    /\ mutex' = IF TakesLock(op) THEN t ELSE mutex
    /\ thPc' = [thPc EXCEPT ![t] = IF op = "cleanup_missing_files" THEN "scan" ELSE "entered"]
    /\ thOp' = [thOp EXCEPT ![t] =
                  [op |-> op,
                   key |-> IF op = "cleanup_missing_files" THEN NoKey ELSE k,
                   todo |-> IF op = "cleanup_missing_files"
                            THEN {r.key : r \in {q \in rows : SweepDeletes(files, q.key)}}
                            ELSE {}]]
    /\ UNCHANGED <<rows, nextId, dbWriter>>
    /\ callKept /\ tilesKept

\* conn.execute of the INSERT / UPDATE / DELETE: the connection takes
\* SQLite's write lock, waiting (timeout=30.0) while another connection has it
CallExecute(t) ==
    /\ thPc[t] \in {"entered", "scan"}
    /\ thPc[t] = "scan" => thOp[t].todo # {}
    /\ dbWriter = NoThread
    /\ dbWriter' = t
    /\ thPc' = [thPc EXCEPT ![t] = "txn"]
    /\ UNCHANGED <<rows, nextId, mutex, thOp>>
    /\ callKept /\ tilesKept

\* what the statements of the call make of the table
CallRows(c, rs, id, t) ==
    CASE c.op = "add_output" -> InsertRow(rs, c.key, id, t)
      [] c.op = "mark_processing" -> MarkProcessingRows(rs, c.key)
      [] c.op = "mark_completed" -> MarkCompletedRows(rs, c.key)
      [] c.op = "cleanup_missing_files" -> {r \in rs : r.key \notin c.todo}

\* conn.commit() (or the IntegrityError), conn.close(), the end of `with self._lock`
CallCommit(t) ==
    /\ thPc[t] = "txn"
    /\ rows' = CallRows(thOp[t], rows, nextId, now)
    /\ nextId' = IF thOp[t].op = "add_output" /\ rows' # rows THEN nextId + 1 ELSE nextId
    /\ dbWriter' = NoThread
    /\ mutex' = IF mutex = t THEN NoThread ELSE mutex
    /\ thPc' = [thPc EXCEPT ![t] = "idle"]
    /\ thOp' = [thOp EXCEPT ![t] = NoCall]
    /\ callKept /\ tilesKept

\* cleanup_missing_files found every file: commit of nothing; or the wait
\* for SQLite's lock ran out: sqlite3.OperationalError leaves the call
CallLeave(t) ==
    /\ \/ thPc[t] = "scan" /\ thOp[t].todo = {}
       \/ thPc[t] \in {"entered", "scan"} /\ dbWriter \notin {NoThread, t}
    /\ mutex' = IF mutex = t THEN NoThread ELSE mutex
    /\ thPc' = [thPc EXCEPT ![t] = "idle"]
    /\ thOp' = [thOp EXCEPT ![t] = NoCall]
    /\ UNCHANGED <<rows, nextId, dbWriter>>
    /\ callKept /\ tilesKept

InitLock ==
    /\ InitQueue
    /\ InitNoRun
    /\ now = MaxTime
    /\ files \in {Keys} \cup {Keys \ {k} : k \in Keys}
    /\ max_unprocessed = MaxCeiling

NextLock ==
    \/ \E t \in Threads : \E op \in WriteOps : \E k \in Keys : CallEnter(t, op, k)
    \/ \E t \in Threads : CallExecute(t)
    \/ \E t \in Threads : CallCommit(t)
    \/ \E t \in Threads : CallLeave(t)

SpecLock == InitLock /\ [][NextLock]_vars

\* ---- the same calls while artifacts come and go on the disk: between the
\* exists() tests of cleanup_missing_files and its DELETEs nothing holds
\* the writers of the files or of the table back
NextRace == NextLock \/ \E k \in Keys : FileChange(k)

SpecRace == InitLock /\ [][NextRace]_vars

\* ---- TMSModality.download_tile as the pool threads run it on the one
\* modality object they are all given (partial(_process_single_annotation,
\* modality=modality, ...)): nothing orders their reads and writes of
\* last_request_time, so the steps of different threads interleave freely
lockKept == UNCHANGED <<mutex, dbWriter, thPc, thOp>>

\* elapsed = time.time() - self.last_request_time
\* if elapsed < self.tile_delay: time.sleep(self.tile_delay - elapsed)
TileCheck(w) ==
    /\ w <= num_workers /\ tPc[w] = "idle"
    /\ LET elapsed == clock - last_request_time IN
        /\ tPc' = [tPc EXCEPT ![w] = IF elapsed < TileDelay THEN "sleep" ELSE "stamp"]
        /\ tWake' = [tWake EXCEPT ![w] = IF elapsed < TileDelay
                                          THEN clock + (TileDelay - elapsed) ELSE @]
    /\ UNCHANGED <<clock, last_request_time>>
    /\ UNCHANGED <<storeVars, runVars, twin>> /\ lockKept

\* time.sleep returns, not before its time
TileWake(w) ==
    /\ tPc[w] = "sleep" /\ clock >= tWake[w]
    /\ tPc' = [tPc EXCEPT ![w] = "stamp"]
    /\ UNCHANGED <<clock, last_request_time, tWake>>
    /\ UNCHANGED <<storeVars, runVars, twin>> /\ lockKept

\* self.last_request_time = time.time(); response = requests.get(url, ...)
TileRequest(w) ==
    /\ tPc[w] = "stamp"
    /\ last_request_time' = clock
    /\ tPc' = [tPc EXCEPT ![w] = "idle"]
    /\ tWake' = [tWake EXCEPT ![w] = 0]
    /\ UNCHANGED clock
    /\ UNCHANGED <<storeVars, runVars, twin>> /\ lockKept

\* time passes
Tick ==
    /\ clock < MaxClock
    /\ clock' = clock + 1
    /\ UNCHANGED <<last_request_time, tPc, tWake>>
    /\ UNCHANGED <<storeVars, runVars, twin>> /\ lockKept

InitTiles ==
    /\ InitPipe
    /\ rows = {}
    /\ max_unprocessed = MaxCeiling
    /\ ~incremental /\ batch_size = 1 /\ ~consumer

NextTiles ==
    \/ \E w \in Workers : TileCheck(w)
    \/ \E w \in Workers : TileWake(w)
    \/ \E w \in Workers : TileRequest(w)
    \/ Tick

SpecTiles == InitTiles /\ [][NextTiles]_vars

\* ---- main run twice on the same items, collaborators and store: first
\* with num_workers = 1, then with a pool; no consumer, so a
\* wait_until_can_produce that is entered never returns
\* what process_annotation and writer.write do for item i in both runs
OracleOf(i) == twin.oracle[i]

InitTwin ==
    /\ num_workers = 1
    /\ InitRun
    /\ consumer = FALSE
    /\ \E f \in [Items -> Outcomes] :
           twin = [phase |-> "first", oracle |-> f, rows0 |-> rows,
                   rows1 |-> {}, saved1 |-> 0]

\* the first run is over (its modality done or aborted): what it left and
\* reported is kept, and main starts again on the store as it was, with
\* num_workers > 1
SecondRun ==
    /\ twin.phase = "first" /\ mainPc \in {"done", "aborted"}
    /\ twin' = [twin EXCEPT !.phase = "second", !.rows1 = rows,
                            !.saved1 = TotalAfter(mainPc, 0, saved)]
    /\ num_workers' \in 2..MaxWorkers
    /\ batch_size' \in (IF incremental THEN {1} ELSE 1..NumItems)
    /\ rows' = twin.rows0
    /\ nextId' = Cardinality(twin.rows0) + 1
    /\ files' = {r.key : r \in twin.rows0}
    /\ markTrue' = [k \in Paths |->
                      IF \E r \in twin.rows0 : r.key = k /\ r.status = "processing"
                      THEN 1 ELSE 0]
    /\ mainPc' = "next"
    /\ pos' = 1
    /\ cur' = NoItem
    /\ result' = [i \in Items |-> "none"]
    /\ saved' = 0
    /\ waited' = FALSE
    /\ UNCHANGED <<now, max_unprocessed, lastOp, sweepPc, sweepTodo, sweepDel,
                   sweepPre, sweepClean, incremental, taskQ, futures, wPc, wItem,
                   consumer, dbOpened, confOk, modIdx, modLog, fmt, outs, batchOuts,
                   writeAlls, total_saved, threadVars>>

NextTwin ==
    \/ SeqTurn
    \/ mainPc = "produce" /\ SeqProduce(OracleOf(cur))
    \/ SeqAdd
    \/ RunEnd
    \/ SecondRun
    \/ ParSubmit
    \/ ChunkEnd
    \/ \E w \in Workers : WorkerTake(w)
    \/ \E w \in Workers : WorkerRecount(w)
    \/ \E w \in Workers : wPc[w] = "produce" /\ WorkerProduce(w, OracleOf(wItem[w]))
    \/ \E w \in Workers : WorkerAdd(w)

SpecTwin == InitTwin /\ [][NextTwin]_vars

\* ---- a run of main over a TMS modality whose tile server answers badly
\* what the annotation is and what the server sends for its tile:
\* "image" a good tile, "network_error" requests.get raises, "http_error"
\* raise_for_status raises, "not_an_image" Image.open raises,
\* "broken_image" Image.open identifies the header and returns, the pixel
\* data cannot be decoded, "not_a_point" the geometry is no Point
Answers == {"image", "network_error", "http_error", "not_an_image", "broken_image",
            "not_a_point"}

\* download_tile: try: requests.get; raise_for_status; Image.open; return img
\* except Exception: return Image.new('RGB', (256, 256), color='gray').
\* Image.open reads the header only: the image it returns is decoded when used
DownloadTile(a) ==
    CASE a = "image" -> "tile"
      [] a \in {"network_error", "http_error", "not_an_image"} -> "blank"
      [] a = "broken_image" -> "undecoded"

\* merge_tiles_to_image: img = self.download_tile(tile); merged_img.paste(img, ...)
\* (paste decodes img, outside any try)
MergeTilesToImage(t) == IF t = "undecoded" THEN "raises" ELSE "ok"

\* process_annotation: if not isinstance(..., Point): return None; ...
\* merged_image, tile_bbox = self.merge_tiles_to_image(tiles); return ModalityOutput(...)
ProcessAnnotation(a) ==
    IF a = "not_a_point" THEN "skip" ELSE MergeTilesToImage(DownloadTile(a))

AnswerOf(i) == twin.oracle[i]

InitFetch ==
    /\ num_workers \in 1..MaxWorkers
    /\ InitRun
    /\ consumer = FALSE
    /\ \E f \in [Items -> Answers] :
           twin = [phase |-> "fetch", oracle |-> f, rows0 |-> rows,
                   rows1 |-> {}, saved1 |-> 0]

NextFetch ==
    \/ SeqTurn
    \/ mainPc = "produce" /\ SeqProduce(ProcessAnnotation(AnswerOf(cur)))
    \/ SeqAdd
    \/ RunEnd
    \/ ParSubmit
    \/ ChunkEnd
    \/ \E w \in Workers : WorkerTake(w)
    \/ \E w \in Workers : WorkerRecount(w)
    \/ \E w \in Workers :
          wPc[w] = "produce" /\ WorkerProduce(w, ProcessAnnotation(AnswerOf(wItem[w])))
    \/ \E w \in Workers : WorkerAdd(w)

SpecFetch == InitFetch /\ [][NextFetch]_vars

\* ================================================================ claims
UniqueKeys == \A r1, r2 \in rows : r1.key = r2.key => r1 = r2

DuplicateAddKeepsRow ==
    (lastOp'.op = "add_output" /\ HasKey(rows, lastOp'.key)) =>
        /\ lastOp'.ret = FALSE
        /\ \A r \in rows' : r.key = lastOp'.key =>
               r.created_at = RowOf(rows, lastOp'.key).created_at

\* C4: whatever add_output, mark_processing, mark_completed and
\* cleanup_missing_files calls are made, no two rows share a key, and an
\* add_output of a key that has a row returns False and leaves the row's
\* created_at as it was.
C4_KeyUniqueness == UniqueKeys /\ [][UniqueKeys' /\ DuplicateAddKeepsRow]_vars

C4_Witness ==
    /\ lastOp.op = "add_output" /\ lastOp.ret = FALSE
    /\ \E r \in rows : r.key = lastOp.key /\ r.created_at < now

ClaimedOnce ==
    \A r \in rows : markTrue[r.key] = IF r.status = "processing" THEN 1 ELSE 0

PendingClaimSucceeds ==
    (lastOp'.op = "mark_processing"
        /\ \E r \in rows : r.key = lastOp'.key /\ r.status = "pending") =>
            /\ lastOp'.ret = TRUE
            /\ \A r \in rows' : r.key = lastOp'.key => r.status = "processing"

\* C5: of the mark_processing calls made on one pending row, exactly one
\* returns True (the first to run), the others return False, and the row
\* is then in status processing.
C5_ExactlyOnceClaim == ClaimedOnce /\ [][ClaimedOnce' /\ PendingClaimSucceeds]_vars

C5_Witness ==
    /\ lastOp.op = "mark_processing" /\ lastOp.ret = FALSE
    /\ \E r \in rows : /\ r.key = lastOp.key
                       /\ r.status = "processing"
                       /\ r.created_at > 0
                       /\ markTrue[r.key] = 1

\* C6: get_next_pending returns None when no row is pending and otherwise
\* the key of a pending row than which no pending row has a smaller
\* created_at; a row in status processing is never returned.
C6_FifoClaimOrder ==
    IF \A r \in rows : r.status # "pending"
    THEN GetNextPending(rows) = NoKey
    ELSE \E r \in rows :
            /\ r.key = GetNextPending(rows)
            /\ r.status = "pending"
            /\ \A s \in rows : s.status = "pending" => r.created_at <= s.created_at
            /\ \A s \in rows : s.key = r.key => s.status = "pending"

C6_Witness ==
    \E r, s \in rows :
        /\ r.status = "pending" /\ s.status = "pending"
        /\ r.created_at < s.created_at /\ r.key > s.key
        /\ GetNextPending(rows) = r.key

\* C21: get_all_pending returns exactly the rows in status pending, each
\* once, as (key, created_at) pairs in non-decreasing created_at order, and
\* when it is non-empty its first pair carries the created_at of the row
\* whose key get_next_pending returns in the same state.
C21_GetAllPending ==
    LET res == GetAllPending(rows)
    IN  /\ Len(res) = Cardinality(PendingOf(rows))
        /\ \A r \in PendingOf(rows) :
               Cardinality({i \in 1..Len(res) : res[i] = <<r.key, r.created_at>>}) = 1
        /\ \A i \in 1..Len(res) :
               \E r \in PendingOf(rows) : res[i] = <<r.key, r.created_at>>
        /\ \A i, j \in 1..Len(res) : i < j => res[i][2] <= res[j][2]
        /\ Len(res) > 0 =>
               \E r \in rows : r.key = GetNextPending(rows) /\ r.created_at = res[1][2]

C21_Witness ==
    /\ Len(GetAllPending(rows)) >= 2
    /\ GetAllPending(rows)[1][2] < GetAllPending(rows)[2][2]
    /\ GetAllPending(rows)[1][1] > GetAllPending(rows)[2][1]
    /\ GetAllPending(rows)[1][1] = GetNextPending(rows)

\* C9: a cleanup_missing_files during which nobody writes the table or
\* changes the files leaves exactly the rows whose file exists, each as it
\* was (same id, key, created_at, status).
C9_RecoverySweep ==
    [][(sweepPc = "scan" /\ sweepPc' = "idle" /\ sweepClean) =>
            rows' = {r \in sweepPre : r.key \in files}]_vars

C9_Witness ==
    /\ sweepPc = "idle" /\ sweepClean
    /\ lastOp.op = "cleanup_missing_files" /\ lastOp.ret = TRUE
    /\ rows # {}
    /\ \E k \in Keys : k \notin files

PendingKeys == {k \in Keys : \E r \in rows : r.key = k /\ r.status = "pending"}

Admission == CanProduce(rows, max_unprocessed) <=> Cardinality(PendingKeys) < max_unprocessed

ClaimFreesSlot ==
    (lastOp'.op = "mark_processing" /\ lastOp'.ret = TRUE) =>
        /\ Cardinality(rows') = Cardinality(rows)
        /\ Cardinality(PendingKeys') = Cardinality(PendingKeys) - 1
        /\ (Cardinality(PendingKeys) = max_unprocessed => CanProduce(rows', max_unprocessed))

\* C10: can_produce() is true exactly when fewer than max_unprocessed rows
\* are pending; processing rows do not count, so a mark_processing that
\* returns True lowers the count by one and, at the ceiling, turns
\* can_produce from false to true.
C10_AdmissionPredicate == [][Admission /\ Admission' /\ ClaimFreesSlot]_vars

C10_Witness ==
    /\ lastOp.op = "mark_processing" /\ lastOp.ret = TRUE
    /\ Cardinality(PendingKeys) = max_unprocessed - 1
    /\ Cardinality(rows) >= max_unprocessed
    /\ CanProduce(rows, max_unprocessed)

PendingCount == Cardinality({r \in rows : r.status = "pending"})

\* C1: with num_workers = W (one producer, a consumer that only claims or
\* removes rows, at most max_unprocessed rows pending at the start) the
\* number of pending rows never exceeds max_unprocessed + W - 1, however
\* the workers' admission checks and add_output calls interleave.
C1_BoundedOvershoot ==
    PendingCount <= max_unprocessed + (num_workers - 1)

C1_Witness ==
    /\ num_workers > 1
    /\ PendingCount = max_unprocessed + (num_workers - 1)
    /\ \E i \in Items : result[i] = "none"

\* C2: with num_workers = 1 and no consumer, starting with at most
\* max_unprocessed rows pending, the number of pending rows is at most
\* max_unprocessed in every state of the run (so after every add_output),
\* for the list and for the incremental source.
C2_CeilingSequential ==
    (num_workers = 1 /\ ~consumer) => PendingCount <= max_unprocessed

C2_Witness ==
    /\ num_workers = 1 /\ ~consumer /\ incremental
    /\ PendingCount = max_unprocessed
    /\ mainPc = "next"
    /\ \E i \in Items : result[i] = "queued"

\* C3: an exception of process_annotation or writer.write for one item
\* does not abort the run: every run ends with every item of the source
\* processed (for any num_workers).
C3_IsolationOfFailures ==
    (mainPc = "done" \/ mainPc = "aborted") =>
        (mainPc = "done" /\ \A i \in Items : result[i] # "none")

\* the same, for the runs under a pool only
C3_IsolationInPool ==
    (num_workers > 1 /\ (mainPc = "done" \/ mainPc = "aborted")) =>
        (mainPc = "done" /\ \A i \in Items : result[i] # "none")

BlocksAtCeiling ==
    (mainPc = "next" /\ mainPc' \notin {"next", "done"}
        /\ PendingCount >= max_unprocessed) => mainPc' = "wait"

\* C7: in a sequential run a turn that starts with max_unprocessed rows
\* pending blocks in wait_until_can_produce, and once the consumer has
\* brought the pending count below max_unprocessed the producer leaves the
\* wait and goes on to produce the item.
C7_BackpressureResume ==
    /\ [][BlocksAtCeiling]_vars
    /\ (mainPc = "wait" /\ PendingCount < max_unprocessed) ~> (mainPc = "produce" /\ waited)

C7_Witness ==
    /\ mainPc = "produce" /\ waited
    /\ \E i \in Items : result[i] = "queued" /\ ~HasKey(rows, i)

Stalled == ~consumer /\ mainPc = "wait" /\ PendingCount >= max_unprocessed

\* C8: a thread inside wait_until_can_produce stays there through every
\* step taken while max_unprocessed or more rows are pending (the wait has
\* no timeout and no other way out); and a sequential producer that waits
\* at the ceiling with nobody removing or claiming rows waits for ever and
\* produces nothing more.
C8_IndefiniteStall ==
    [][/\ (mainPc = "wait" /\ PendingCount >= max_unprocessed) => mainPc' = "wait"
       /\ \A w \in Workers :
            (wPc[w] = "wait" /\ PendingCount >= max_unprocessed) => wPc'[w] = "wait"
       /\ Stalled => (Stalled' /\ files' = files /\ result' = result /\ rows' = rows)]_vars

C8_Witness ==
    /\ ~consumer
    /\ mainPc = "wait"
    /\ PendingCount >= max_unprocessed
    /\ pos <= NumItems

\* C11: mark_completed(key) removes the row of key whatever its status and
\* changes no other row; on an absent key (so also a second time) it
\* returns without error and leaves the table as it was.
C11_MarkCompleted ==
    [][lastOp'.op = "mark_completed" =>
          /\ lastOp'.ret = TRUE
          /\ rows' = {r \in rows : r.key # lastOp'.key}
          /\ (~HasKey(rows, lastOp'.key) => rows' = rows)]_vars

C11_Witness ==
    /\ lastOp.op = "mark_completed"
    /\ ~HasKey(rows, lastOp.key)
    /\ \E r \in rows : r.status = "processing"
    /\ nextId > Cardinality(rows) + 1

\* C12: mark_processing(key) on an absent key or on a row that is already
\* processing returns False and leaves the table unchanged; on a pending
\* row it returns True and changes that row's status, and nothing else.
C12_MarkProcessing ==
    [][lastOp'.op = "mark_processing" =>
          IF \E r \in rows : r.key = lastOp'.key /\ r.status = "pending"
          THEN /\ lastOp'.ret = TRUE
               /\ rows' = {IF r.key = lastOp'.key
                           THEN [r EXCEPT !.status = "processing"] ELSE r : r \in rows}
          ELSE /\ lastOp'.ret = FALSE
               /\ rows' = rows]_vars

C12_Witness ==
    /\ lastOp.op = "mark_processing"
    /\ lastOp.ret = FALSE
    /\ ~HasKey(rows, lastOp.key)
    /\ rows # {}

\* C13: a row is inserted for a key only by a step taken after the writer
\* has written that item's file, and the item then has the outcome queued;
\* an item that failed or was skipped keeps that outcome and never gets a
\* row, and an item left in mid-pipeline has none either.
C13_AddAfterWrite ==
    [][/\ \A k \in KeysOf(rows') \ KeysOf(rows) :
                /\ k \in Items /\ k \in files
                /\ result[k] = "none" /\ result'[k] = "queued"
                /\ (mainPc = "add" /\ cur = k) \/ (\E w \in Workers : wPc[w] = "add" /\ wItem[w] = k)
       /\ \A i \in Items :
            result[i] \in {"failed", "skipped"} =>
                result'[i] = result[i] /\ (HasKey(rows', i) => HasKey(rows, i))]_vars

C13_Witness ==
    \E i, j \in Items :
        /\ result[i] = "failed" /\ ~HasKey(rows, i) /\ i \notin files
        /\ result[j] = "queued" /\ HasKey(rows, j) /\ j \in files
        /\ i < j

\* C14: the step in which process_annotation returns nothing for an item
\* changes neither the table nor the files nor the saved count and does not
\* end the run with an error; afterwards the item stays skipped, is never
\* written and never gets a row.
C14_SkipShortCircuit ==
    [][\A i \in Items :
          /\ (result[i] = "none" /\ result'[i] = "skipped") =>
                /\ rows' = rows /\ nextId' = nextId
                /\ files' = files /\ saved' = saved
                /\ mainPc' # "aborted"
          /\ result[i] = "skipped" =>
                /\ result'[i] = "skipped"
                /\ (i \in files' => i \in files)
                /\ (HasKey(rows', i) => HasKey(rows, i))]_vars

C14_Witness ==
    /\ mainPc = "done"
    /\ saved > 0
    /\ \E i \in Items : result[i] = "skipped" /\ ~HasKey(rows, i) /\ i \notin files

Produced == {i \in Items : result[i] \in {"queued", "duplicate"}}

\* C15: an item whose file was written but whose key add_output found
\* already present is still counted as produced: at the end of a run the
\* saved-files total is the number of items written, duplicates included,
\* for any num_workers.
C15_DuplicateAccounting ==
    mainPc = "done" => saved = Cardinality(Produced)

\* the same, for num_workers = 1 only
C15_SequentialAccounting ==
    (mainPc = "done" /\ num_workers = 1) => saved = Cardinality(Produced)

\* C16: once a queue store call has failed with a storage error the
\* modality's processing has stopped, and the error has not been turned
\* into a failed outcome of the item, for any num_workers.
C16_StorageErrorsFatal ==
    lastOp.op = "storage_error" =>
        (mainPc = "aborted" /\ result[lastOp.key] # "failed")

\* the same, for num_workers = 1 only
C16_FatalSequential ==
    (lastOp.op = "storage_error" /\ num_workers = 1) =>
        (mainPc = "aborted" /\ result[lastOp.key] # "failed")

Abandoned == {"create_failed", "aborted"}

NextModalityAfterFailure ==
    \A m \in Mods :
        (modLog[m] = "todo" /\ modLog'[m] \in Abandoned) =>
            /\ m = modIdx /\ modIdx' = m + 1
            /\ mainPc' = "modality"
            /\ \A j \in Mods : j # m => modLog'[j] = modLog[j]

InConfigurationOrder ==
    /\ \A m \in Mods : (modLog[m] # "todo") <=> (m < modIdx)
    /\ mainPc = "finished" => \A m \in Mods : modLog[m] # "todo"

C18_ConfigErrorFirst ==
    mainPc = "config_error" => ~dbOpened

IsCollected(i) == result[i] = "collected"

\* the successful items of the run, in source order
Collected == SelectSeq([i \in 1..NumItems |-> i], IsCollected)

Leftover == {r \in rows : r.created_at < now}

Queued == {i \in Items : result[i] = "queued"}

C20_ListRun ==
    /\ mainPc = "done" /\ ~consumer
    /\ ~incremental /\ num_workers > 1 /\ batch_size < NumItems
    /\ Cardinality(Queued) >= 1
    /\ \E i \in Items : result[i] = "duplicate"

\* C22: constructing the QueueManager on a store that already has rows
\* leaves every row as it was, and the first item of the run is admitted
\* against those rows: it waits exactly when the pending rows left by the
\* previous run are at or above max_unprocessed.
C22_RestartPersistence ==
    [][/\ (mainPc = "start" /\ mainPc' # "start") =>
              /\ rows' = rows
              /\ CountUnprocessed(rows') = CountUnprocessed(rows)
       /\ (mainPc = "next" /\ modIdx = 1 /\ pos = 1 /\ pos' = 2 /\ fmt = "tif") =>
              /\ rows = Leftover
              /\ (mainPc' = "wait") <=> (CountUnprocessed(Leftover) >= max_unprocessed)
              /\ (mainPc' = "produce") <=> (CountUnprocessed(Leftover) < max_unprocessed)]_vars

C22_Witness ==
    /\ dbOpened /\ mainPc = "wait" /\ modIdx = 1 /\ cur = 1
    /\ rows # {} /\ rows = Leftover
    /\ CountUnprocessed(rows) = max_unprocessed

\* C23: in parallel mode the items of a chunk are submitted only when every
\* future of the chunk before has resolved and its result has been folded
\* into the totals: at a submission no future is open, no task is queued, no
\* pool thread is busy and every earlier item has its outcome; the chunk is
\* the next batch_size items of the list, or the next num_workers items of
\* the generator, or what is left of the source.
C23_ChunkBarrier ==
    [][(num_workers > 1 /\ pos' > pos) =>
            /\ futures = {} /\ taskQ = << >>
            /\ \A w \in Workers : wPc[w] = "idle"
            /\ \A i \in 1..(pos - 1) : result[i] # "none"
            /\ futures' = pos..(pos' - 1)
            /\ pos' - pos = Min(IF incremental THEN num_workers ELSE batch_size,
                                NumItems - pos + 1)]_vars

C23_Witness ==
    /\ num_workers > 1 /\ mainPc = "collect"
    /\ futures # {} /\ taskQ = << >>
    /\ \E i \in Items : (\A j \in futures : i < j) /\ result[i] = "queued"
    /\ \E w \in Workers : wPc[w] = "add"

\* C24: in per-item output mode a thread starts the producer step for its
\* item only in a step in which it has itself read a pending count strictly
\* below max_unprocessed: the first can_produce, the re-read of the count,
\* or the can_produce that ends the wait loop.
C24_PerItemAdmission ==
    [][/\ \A w \in Workers :
              (wPc[w] # "produce" /\ wPc'[w] = "produce") =>
                  /\ wPc[w] \in {"idle", "recount", "wait"}
                  /\ PendingCount < max_unprocessed
       /\ (mainPc # "produce" /\ mainPc' = "produce") =>
              /\ mainPc \in {"next", "wait"}
              /\ PendingCount < max_unprocessed]_vars

C24_Witness ==
    /\ num_workers > 1 /\ consumer
    /\ PendingCount >= max_unprocessed
    /\ \E w, v \in Workers :
           /\ wPc[w] = "produce" /\ wItem[w] # NoItem
           /\ wPc[v] = "wait"

\* the items a step hands to the per-item pipeline
Submitted == IF pos' > pos /\ mainPc \in {"next"} THEN pos..(pos' - 1) ELSE {}

\* item i is in the pipeline or through it
InPipeline(i) ==
    \/ result[i] # "none"
    \/ cur = i
    \/ i \in futures
    \/ \E j \in 1..Len(taskQ) : taskQ[j] = i
    \/ \E w \in Workers : wItem[w] = i

\* C25: each item of the source is handed to the per-item pipeline exactly
\* once per modality: a submission takes the next items in source order,
\* none of them handed over before, a pool thread takes a task that no other
\* thread holds, the source is read from its first item again when a modality
\* starts, and a modality that completes has an outcome for every item, the
\* items of a trailing chunk smaller than batch_size or num_workers included.
C25_EveryItemOnce ==
    [][/\ \A i \in Submitted : ~InPipeline(i)
       /\ Submitted # {} => \A j \in 1..(pos - 1) : InPipeline(j)
       /\ (Submitted # {} /\ num_workers > 1) =>
              /\ futures' = Submitted
              /\ Len(taskQ') = Cardinality(Submitted)
              /\ \A j \in 1..Len(taskQ') : taskQ'[j] = pos + j - 1
       /\ (Submitted # {} /\ num_workers = 1) => Submitted = {pos} /\ cur' = pos
       /\ \A w \in Workers : (wItem'[w] # wItem[w] /\ wItem'[w] # NoItem) =>
              /\ wItem'[w] = Head(taskQ)
              /\ \A j \in 1..Len(taskQ') : taskQ'[j] # wItem'[w]
              /\ \A v \in Workers \ {w} : wItem'[v] # wItem'[w]
              /\ result[wItem'[w]] = "none"
       /\ (mainPc = "modality" /\ mainPc' = "next") =>
              pos' = 1 /\ \A i \in Items : ~InPipeline(i)'
       /\ (fmt = "tif" /\ mainPc' = "done") =>
              pos' = NumItems + 1 /\ \A i \in Items : result'[i] # "none"]_vars

C25_Witness ==
    /\ mainPc = "done" /\ fmt = "tif" /\ modIdx = NumMods
    /\ modLog[1] = "done"
    /\ num_workers > 1 /\ incremental /\ NumItems % num_workers # 0
    /\ \A i \in Items : result[i] = "queued"

\* C26: with a finite source, collaborators that return, and a consumer
\* that removes a row whenever the pending count is at or above
\* max_unprocessed, a run with any num_workers >= 1 goes through every
\* modality and reaches the final summary.
C26_Termination ==
    <>(mainPc = "finished" /\ \A m \in Mods : modLog[m] # "todo")

C26_Witness ==
    /\ mainPc = "finished" /\ num_workers > 1
    /\ \A m \in Mods : modLog[m] = "done"
    /\ nextId > NumMods * NumItems
    /\ Cardinality(rows) < max_unprocessed

\* C27: the producer run never deletes a row and never changes one: a step
\* in which a row of the table goes away or changes is a step of the
\* consumer, and a step of the producer leaves the table alone or adds one
\* pending row to it, so that without a consumer every row present at the
\* start of the run is there unchanged at its end.
C27_ProducerOnlyAdds ==
    [][/\ (\E r \in rows : r \notin rows') =>
              /\ consumer
              /\ UNCHANGED <<mainPc, pos, cur, taskQ, futures, wPc, wItem, result,
                             saved, waited, files>>
       /\ (rows' # rows /\ \A r \in rows : r \in rows') =>
              /\ Cardinality(rows' \ rows) = 1
              /\ \A r \in rows' \ rows :
                     r.status = "pending" /\ r.created_at = now /\ ~HasKey(rows, r.key)
       /\ ~consumer => Leftover' = Leftover]_vars

C27_Witness ==
    /\ mainPc = "done" /\ ~consumer
    /\ \E r \in Leftover : r.status = "processing" /\ result[r.key] = "duplicate"
    /\ \E i \in Items : result[i] = "queued"

InWrite(t) == thPc[t] = "txn"

\* C28: every write operation of the store (add_output, mark_processing,
\* mark_completed, cleanup_missing_files) runs inside the store's one
\* mutual-exclusion scope: a thread that is in its write section holds the
\* lock of the QueueManager, and no two threads are in their write sections
\* at the same time.
C28_SerializedWrites ==
    /\ \A t \in Threads : InWrite(t) => mutex = t
    /\ \A t, u \in Threads : (InWrite(t) /\ InWrite(u)) => t = u

\* what serialises the writes that do not take the lock: SQLite's write lock
C28_EngineSerializes ==
    /\ \A t \in Threads : InWrite(t) => dbWriter = t
    /\ \A t \in Threads : (InWrite(t) /\ thOp[t].op = "add_output") => mutex = t

\* a tile request goes out in this step
Requests(w) == tPc[w] = "stamp" /\ tPc'[w] = "idle"

\* C29: the workers of a pool share no mutable state but the queue store,
\* and the tile fetcher's rate limit holds across them: under every
\* interleaving of the workers, a tile request of the modality goes out at
\* least tile_delay after the request before it.
C29_RateLimitAcrossWorkers ==
    [][\A w \in Workers : Requests(w) => clock - last_request_time >= TileDelay]_vars

\* with one worker the requests are tile_delay apart
C29_RateLimitOneWorker ==
    [][\A w \in Workers :
          (num_workers = 1 /\ Requests(w)) => clock - last_request_time >= TileDelay]_vars

\* C30: count_unprocessed, can_produce, get_next_pending and get_all_pending
\* leave every row of the table as it is, between any writes of other
\* callers; the row whose key get_next_pending returns is still there and
\* still pending after the call.
C30_ReadsArePure ==
    [][(lastOp' # lastOp /\ lastOp'.op \in ReadOps) =>
            /\ rows' = rows
            /\ nextId' = nextId
            /\ (lastOp'.op = "get_next_pending" /\ lastOp'.key # NoKey) =>
                   \E r \in rows' : r.key = lastOp'.key /\ r.status = "pending"]_vars

C30_Witness ==
    /\ lastOp.op = "get_next_pending" /\ lastOp.key # NoKey
    /\ \E r \in rows : r.key = lastOp.key /\ r.status = "pending"
    /\ \E r \in rows : r.status = "processing"

\* the artifact files the writer has written for the modality in hand
WrittenNow ==
    IF fmt = "h5" THEN (IF mainPc = "done" THEN Len(writeAlls) ELSE 0)
    ELSE Cardinality({i \in Items : result[i] \in {"queued", "duplicate"}})

\* C31: the grand total grows, at the end of each modality, by the number
\* of artifact files the writer wrote for it, also when the modality ended
\* in an exception, so that the total reported at the end of the run is the
\* number of files written during the run.
C31_RunTotals ==
    [][(mainPc \in {"done", "aborted"} /\ modIdx' = modIdx + 1) =>
            total_saved' = total_saved + WrittenNow]_vars

\* the total counts the files of the modalities that ended normally
C31_TotalsOfCompleted ==
    [][(mainPc = "done" /\ modIdx' = modIdx + 1) =>
            total_saved' = total_saved + WrittenNow]_vars

\* C32: an add_output of a key that already has a row changes nothing in
\* the store: every row is as it was, that row's id and status included (a
\* processing row is not set back to pending), no id is used up and the
\* pending count is the same.
C32_DuplicateAddNoOp ==
    [][(lastOp'.op = "add_output" /\ HasKey(rows, lastOp'.key)) =>
            /\ rows' = rows
            /\ nextId' = nextId
            /\ CountUnprocessed(rows') = CountUnprocessed(rows)
            /\ RowOf(rows', lastOp'.key).status = RowOf(rows, lastOp'.key).status
            /\ RowOf(rows', lastOp'.key).id = RowOf(rows, lastOp'.key).id]_vars

C32_Witness ==
    /\ lastOp.op = "add_output" /\ lastOp.ret = FALSE
    /\ \E r \in rows : r.key = lastOp.key /\ r.status = "processing"
    /\ \E r \in rows : r.key # lastOp.key

\* C33: the pending count goes up only in a successful add_output, and
\* then by exactly 1; mark_processing, mark_completed and
\* cleanup_missing_files leave it as it is or lower it.
C33_PendingMonotone ==
    [][/\ PendingCount' > PendingCount =>
              /\ lastOp'.op = "add_output" /\ lastOp'.ret = TRUE
              /\ PendingCount' = PendingCount + 1
       /\ (lastOp'.op = "add_output" /\ ~HasKey(rows, lastOp'.key)) =>
              PendingCount' = PendingCount + 1
       /\ lastOp'.op \in {"mark_processing", "mark_completed",
                          "cleanup_scan", "cleanup_missing_files"} =>
              PendingCount' <= PendingCount]_vars

C33_Witness ==
    /\ lastOp.op = "cleanup_missing_files" /\ lastOp.ret = TRUE
    /\ PendingCount = 0
    /\ \E r \in rows : r.status = "processing"
    /\ nextId > Cardinality(rows) + 1

StatusInDomain == \A r \in rows : r.status \in Status

\* what a step may do to the rows: a row that stays (same id) keeps its key
\* and created_at and its status, or goes from pending to processing; a
\* row that appears is pending
RowSteps ==
    /\ \A r \in rows : \A q \in rows' : q.id = r.id =>
           /\ q.key = r.key
           /\ q.created_at = r.created_at
           /\ q.status = r.status \/ (r.status = "pending" /\ q.status = "processing")
    /\ \A q \in rows' : (\A r \in rows : r.id # q.id) => q.status = "pending"

\* C34: in every reachable state each row's status is pending or
\* processing; a row is created pending, its status only ever goes from
\* pending to processing, and its key and created_at stay as they are until
\* the row is deleted.
C34_RowLifecycle == StatusInDomain /\ [][StatusInDomain' /\ RowSteps]_vars

C34_Witness ==
    /\ lastOp.op = "mark_processing" /\ lastOp.ret = TRUE
    /\ \E r \in rows : r.key = lastOp.key /\ r.status = "processing" /\ r.created_at = now
    /\ now > 0

\* cleanup_missing_files of thread t executes its DELETEs in this step
SweepDeletesNow(t) ==
    /\ thOp[t].op = "cleanup_missing_files"
    /\ thPc[t] = "scan" /\ thPc'[t] = "txn"

\* C35: a cleanup_missing_files that runs beside producers and consumers
\* never deletes a row whose artifact exists at the moment of the delete: a
\* key whose file was rewritten (and whose row was removed and added again)
\* after the sweep read the rows is not deleted.
C35_SweepUnderConcurrency ==
    [][\A t \in Threads : SweepDeletesNow(t) =>
           \A k \in thOp[t].todo : HasKey(rows, k) => k \notin files]_vars

\* the rows of a table as a run leaves them: key and status
RowsLeft(rs) == {<<r.key, r.status>> : r \in rs}

\* the second run of the pair is over
SecondOver == twin.phase = "second" /\ mainPc \in {"done", "aborted"}

\* C36: for the same items, collaborators and initial queue state, with no
\* consumer, the run with num_workers = 1 and the run with num_workers > 1
\* end with the same set of queue rows and report the same number of saved
\* files, also when keys are already in the queue and when items fail.
C36_SeqParEquivalence ==
    SecondOver =>
        /\ RowsLeft(rows) = RowsLeft(twin.rows1)
        /\ TotalAfter(mainPc, 0, saved) = twin.saved1

\* the answers that make a tile download fail
FailedDownloads == {"network_error", "http_error", "not_an_image", "broken_image"}

\* item i has left the producer and the writer, or add_output
Handled(i) ==
    \/ result[i] # "none"
    \/ mainPc = "add" /\ cur = i
    \/ \E w \in Workers : wPc[w] = "add" /\ wItem[w] = i

\* C38: a failed tile download (network error, HTTP error status or
\* undecodable body) is replaced by a blank tile: the item still yields an
\* artifact, which is written, and the item is queued with a successful
\* outcome (its key not being in the queue already).
C38_FetchFailureFallback ==
    \A i \in Items : (AnswerOf(i) \in FailedDownloads /\ Handled(i)) =>
        /\ PathOf(i) \in files
        /\ result[i] \in {"none", "queued", "duplicate"}
        /\ result[i] = "duplicate" => HasKey(twin.rows0, PathOf(i))

\* C37: in batched (HDF5) output mode, for the list and the generator
\* alike, the run makes no admission check and adds no queue row: the
\* store is unchanged by the run and max_unprocessed never holds it up.
C37_BatchedBypassesQueue ==
    [][(fmt = "h5" \/ fmt' = "h5") =>
           /\ UNCHANGED <<rows, nextId, markTrue, lastOp>>
           /\ mainPc' \notin {"next", "produce", "wait", "add"}
           /\ ~waited']_vars

\* a batched run has handed its outputs to write_all beside a table that
\* is at its ceiling
C37_Witness ==
    /\ fmt = "h5" /\ mainPc = "done"
    /\ Len(writeAlls) = 1 /\ Len(writeAlls[1]) >= 2
    /\ rows # {} /\ CountUnprocessed(rows) >= max_unprocessed

\* the file a spelling names for the operating system: the walk from the
\* root or from the working directory, one component at a time
RECURSIVE Walk(_, _)
Walk(at, p) ==
    IF p = <<>> THEN at
    ELSE Walk(CASE Head(p) = "." -> at
                [] Head(p) = ".." -> IF Len(at) > 1 THEN SubSeq(at, 1, Len(at) - 1) ELSE at
                [] OTHER -> Append(at, Head(p)),
              Tail(p))

FileOf(p) == IF Head(p) = "/" THEN Walk(<<"/">>, Tail(p)) ELSE Walk(Cwd, p)

\* the row add_output stored for spelling p
RowSpelled(rs, p) == {r \in rs : r.key = KeyOfPath(Resolve(p))}

\* the spellings that name the file q names
SameFile(q) == {p \in Spellings : FileOf(p) = FileOf(q)}

\* C39: add_output, mark_processing and mark_completed address a row by the
\* resolved absolute form of the path they are given: for two spellings of
\* the same path, an add under one after an add under the other returns
\* False and changes nothing, mark_processing under one claims the pending
\* row of the other, and mark_completed under either removes the row.
C39_KeyCanonicalization ==
    [][\A q \in Spellings :
          /\ (\E t \in Readings : AddOutputAs(q, t)) =>
                 \A p \in SameFile(q) :
                     IF RowSpelled(rows, p) # {}
                     THEN lastOp'.ret = FALSE /\ rows' = rows
                     ELSE lastOp'.ret = TRUE /\ RowSpelled(rows', p) # {}
          /\ MarkCompletedAs(q) => \A p \in SameFile(q) : RowSpelled(rows', p) = {}
          /\ MarkProcessingAs(q) =>
                 \A p \in SameFile(q) :
                     (\E r \in RowSpelled(rows, p) : r.status = "pending") =>
                         /\ lastOp'.ret = TRUE
                         /\ \A r \in RowSpelled(rows', p) : r.status = "processing"]_vars

\* an add under a second spelling of a queued path has returned False
C39_Witness ==
    /\ lastOp = Op("add_output", KeyOfPath(Resolve(<<"..", "out", "a">>)), FALSE)
    /\ RowSpelled(rows, <<"a">>) # {}
    /\ RowSpelled(rows, <<"/", "tmp", "a">>) = {}

====
